---- MODULE Spec2Model ----
(***************************************************************************)
(* The close-group quorum operations of the safenode client               *)
(* (safenode/src/client/api.rs): store_chunk, expect_closest_majority_ok   *)
(* and expect_closest_majority_same, each modelled as the state machine    *)
(* its async body is: one action per await point, the reduction of the     *)
(* responses computed as the code computes it.                             *)
(***************************************************************************)
EXTENDS Naturals, Sequences, FiniteSets, Bags

VARIABLES
    responses,      \* store_chunk: what send_to_closest returned to the last call
    store_result,   \* store_chunk: the value the last call returned
    first_result,   \* store_chunk: the value the call before a resend returned
    ok_pc,          \* expect_closest_majority_ok: position of the call
    ok_futures,     \* expect_closest_majority_ok: list_of_futures, the requests in flight,
                    \* each with the reply its peer will complete it with (a bag)
    ok_responses,   \* expect_closest_majority_ok: the running count ok_responses
    ok_completed,   \* expect_closest_majority_ok: the completions select_all yielded, in order
    ok_result,      \* expect_closest_majority_ok: the value returned
    same_pc,        \* expect_closest_majority_same: position of the call
    dbc_id,         \* expect_closest_majority_same: the requested identifier
    same_futures,   \* expect_closest_majority_same: list_of_futures, as ok_futures
    same_responses, \* expect_closest_majority_same: the accumulator ok_responses
    same_completed, \* expect_closest_majority_same: the completions select_all yielded, in order
    same_result,    \* expect_closest_majority_same: the value returned
    gc_pc,          \* get_chunk: position of the call
    gc_address,     \* get_chunk: the requested ChunkAddress (its name)
    gc_lookups,     \* get_chunk: the provider lookups made so far
    gc_provided,    \* get_chunk: what get_provided_data yielded
    gc_result,      \* get_chunk: the value returned
    new_pc,         \* Client::new: position of the constructor
    new_result,     \* Client::new: the value returned
    added_node,     \* Client::new: the counter added_node of the wait loop
    peers,          \* Client::new: the argument peers (Option<Vec<(PeerId, Multiaddr)>>)
    handler_pc,     \* the event handler task: not spawned, spawned, or awaiting recv()
    must_dial_network, \* the event handler task: the flag must_dial_network
    dial_pos,       \* the dialing tasks spawned: for each, the next seed peer to dial
    dial_log,       \* the dials made so far: seed peer and outcome, in order
    net_closed,     \* whether the NetworkEvent channel has been closed
    connected,      \* the peers of the PeerAdded events handled so far (a bag)
    others_handled, \* the RequestReceived and NewListenAddr events handled so far
    subscribed,     \* whether the wait loop has subscribed to the client events channel
    rx_pending,     \* the ConnectedToNetwork events queued for that subscriber
    broadcasts,     \* the ConnectedToNetwork events broadcast so far
    probes_started, \* the targets of the closest-peer probes spawned so far (a bag)
    probes_done,    \* the probes that have completed
    rd_pc,          \* ReplicatedData: how many of the two values were looked at
    rd_data,        \* ReplicatedData: the two values
    rd_name,        \* ReplicatedData: what name() returned for each
    rd_dst,         \* ReplicatedData: what dst() returned for each
    node_pc,        \* safenode main: at the top of its loop, in start_node, or exited
    node_result,    \* safenode main: the value main returned
    attempts,       \* safenode main: the start_node attempts begun
    rpc,            \* safenode main: whether the RPC service is enabled (opt.rpc)
    ctrl_rx,        \* start_node: the NodeCtrl commands queued in the control channel
    rpc_cmds,       \* the commands the RPC service has sent
    monitor_pc,     \* monitor_node_events: not spawned, in recv().await, or in send().await
    node_events_closed, \* whether the node events channel of this attempt is closed
    lagged          \* monitor_node_events: the Lagged errors received in this attempt

vars == <<responses, store_result, first_result,
          ok_pc, ok_futures, ok_responses, ok_completed, ok_result,
          same_pc, dbc_id, same_futures, same_responses, same_completed, same_result,
          gc_pc, gc_address, gc_lookups, gc_provided, gc_result,
          new_pc, new_result, added_node, peers, handler_pc, must_dial_network,
          dial_pos, dial_log, net_closed, connected, others_handled,
          subscribed, rx_pending, broadcasts, probes_started, probes_done,
          rd_pc, rd_data, rd_name, rd_dst,
          node_pc, node_result, attempts, rpc, ctrl_rx, rpc_cmds, monitor_pc,
          node_events_closed, lagged>>

storeVars == <<responses, store_result, first_result>>
okVars == <<ok_pc, ok_futures, ok_responses, ok_completed, ok_result>>
sameVars == <<same_pc, dbc_id, same_futures, same_responses, same_completed, same_result>>
gcVars == <<gc_pc, gc_address, gc_lookups, gc_provided, gc_result>>
newVars == <<new_pc, new_result, added_node, peers>>
handlerVars == <<handler_pc, must_dial_network, net_closed, connected, others_handled>>
dialVars == <<dial_pos, dial_log>>
channelVars == <<subscribed, rx_pending, broadcasts>>
probeVars == <<probes_started, probes_done>>
bootVars == <<newVars, handlerVars, dialVars, channelVars, probeVars>>
rdVars == <<rd_pc, rd_data, rd_name, rd_dst>>
nodeVars == <<node_pc, node_result, attempts, rpc, ctrl_rx, rpc_cmds, monitor_pc,
              node_events_closed, lagged>>
callVars == <<storeVars, okVars, sameVars, gcVars, rdVars, nodeVars>>
clientVars == <<storeVars, okVars, sameVars, gcVars, rdVars, bootVars>>

(***************************************************************************)
(* Bounds of the model.                                                    *)
(***************************************************************************)
\* The largest number of peers the network layer resolves for one call
\* (and of responses send_to_closest collects).
MaxPeers == 4

\* The largest number of network events the event handler task is handed.
MaxEvents == 4

\* The largest number of start_node attempts of a safenode process.
MaxAttempts == 2

\* The largest number of commands the RPC service sends.
MaxCtrlCmds == 2

\* The largest number of Lagged errors the monitoring task receives in one
\* attempt.
MaxLagged == 2

(***************************************************************************)
(* The quorum thresholds (crate::network, imported at api.rs:16). The      *)
(* defining module is not among the sources: the majority is the           *)
(* specification's floor(group_size / 2) + 1, and the group size is taken  *)
(* small enough for the resolved peers to exceed it.                       *)
(***************************************************************************)
CLOSE_GROUP_SIZE == 3

close_group_majority == (CLOSE_GROUP_SIZE \div 2) + 1

(***************************************************************************)
(* Responses: Result<Response, Error> as a peer's request yields it.       *)
(***************************************************************************)
\* Failures a peer reports inside a response of the expected kind.
ProtocolErrors == {"ChunkNotStored", "SpendRejected"}

\* Failures of the network layer itself.
NetworkErrors == {"OutboundFailure", "Timeout"}

\* Ok(Response::Cmd(CmdResponse::StoreChunk(r))), r = Ok(()) or Err(e)
StoreChunkResponse(r) == [tag |-> "Cmd.StoreChunk", result |-> r]

\* Ok(Response::Cmd(CmdResponse::Spend(r)))
SpendResponse(r) == [tag |-> "Cmd.Spend", result |-> r]

\* Ok(Response::Query(QueryResponse::GetDbcSpend(Ok(spend))))
GetDbcSpendOk(spend) == [tag |-> "Query.GetDbcSpend", result |-> "Ok", spend |-> spend]

\* Ok(Response::Query(QueryResponse::GetDbcSpend(Err(e))))
GetDbcSpendErr(e) == [tag |-> "Query.GetDbcSpend", result |-> e]

\* Ok(Response::Query(QueryResponse::GetChunk(..))): a response no quorum call expects
GetChunkResponse == [tag |-> "Query.GetChunk", result |-> "Ok"]

\* Err(Error::Network(e))
NetworkErr(e) == [tag |-> "Err.Network", err |-> e]

(***************************************************************************)
(* Values a call returns: Result<T, Error>.                                *)
(***************************************************************************)
NotReturned == [tag |-> "NotReturned"]

OkUnit == [tag |-> "Ok"]

OkSpend(spend) == [tag |-> "Ok", spend |-> spend]

ErrProtocol(e) == [tag |-> "Err.Protocol", err |-> e]

ErrNetwork(e) == [tag |-> "Err.Network", err |-> e]

ErrUnexpectedResponses == [tag |-> "Err.UnexpectedResponses"]

\* Error::CouldNotVerifyTransfer("... Got {got}, required: {required}.")
ErrCouldNotVerifyTransfer(got, required) ==
    [tag |-> "Err.CouldNotVerifyTransfer", got |-> got, required |-> required]

\* The bag of the entries of a list.
BagOfList(list) ==
    [v \in {list[i] : i \in DOMAIN list} |->
        Cardinality({i \in DOMAIN list : list[i] = v})]

\* The requests put in flight for up to MaxPeers resolved peers, one per peer:
\* every bag of at most MaxPeers replies out of `values`.
FuturesOver(values) ==
    {BagOfList(l) : l \in UNION {[1..n -> values] : n \in 0..MaxPeers}}

\* The least element of a non-empty set of indices.
MinIndex(S) == CHOOSE i \in S : \A j \in S : i <= j

(***************************************************************************)
(* Client::store_chunk                                                     *)
(***************************************************************************)
\* What send_to_closest can collect: up to MaxPeers results, in any order.
StoreResponseValues ==
    {StoreChunkResponse("Ok")}
        \cup {StoreChunkResponse(e) : e \in ProtocolErrors}
        \cup {SpendResponse("Ok"), GetChunkResponse}
        \cup {NetworkErr(e) : e \in NetworkErrors}

ResponseLists ==
    UNION {[1..n -> StoreResponseValues] : n \in 0..MaxPeers}

\* self.send_to_closest(request).await: the list, or the failure of the call itself
SendOutcomes ==
    {[tag |-> "Ok", list |-> l] : l \in ResponseLists}
        \cup {NetworkErr(e) : e \in NetworkErrors}

\* matches!(resp, Ok(Response::Cmd(CmdResponse::StoreChunk(Ok(())))))
IsStoreChunkOk(resp) == resp.tag = "Cmd.StoreChunk" /\ resp.result = "Ok"

\* responses.iter().filter(..).count()
all_oks(list) == Cardinality({i \in DOMAIN list : IsStoreChunkOk(list[i])})

\* A slip of the threshold: the majority of the responses that came back.
StoreMajorityOfResponses(list) == all_oks(list) >= (Len(list) \div 2) + 1

\* A slip of the threshold: capped by the number of responses that came back.
StoreMajorityCapped(list) ==
    all_oks(list) >= (IF Len(list) < close_group_majority
                      THEN Len(list)
                      ELSE close_group_majority)

\* A slip of the comparison: a strict majority test.
StoreMajorityStrict(list) == all_oks(list) > close_group_majority

\* all_oks >= close_group_majority()
StoreMajorityReached(list) == all_oks(list) >= close_group_majority

\* The positions at which the first loop returns: a StoreChunk response whose
\* result is an error (result.clone()? leaves the loop there).
StoreChunkErrs(list) ==
    {i \in DOMAIN list : list[i].tag = "Cmd.StoreChunk" /\ list[i].result # "Ok"}

\* A slip that leaves the second loop out: no send error is ever looked for.
SendErrsIgnored(list) == {}

\* The positions at which the second loop returns: a send error (resp?).
SendErrs(list) == {i \in DOMAIN list : list[i].tag = "Err.Network"}

\* A slip of the order of the two loops: send errors looked for first.
StoreChunkFailureSendErrsFirst(list) ==
    IF SendErrs(list) # {}
    THEN ErrNetwork(list[MinIndex(SendErrs(list))].err)
    ELSE IF StoreChunkErrs(list) # {}
    THEN ErrProtocol(list[MinIndex(StoreChunkErrs(list))].result)
    ELSE ErrUnexpectedResponses

\* A slip of the second loop: the last send error is returned, not the first.
StoreChunkFailureLastSendErr(list) ==
    IF StoreChunkErrs(list) # {}
    THEN ErrProtocol(list[MinIndex(StoreChunkErrs(list))].result)
    ELSE IF SendErrs(list) # {}
    THEN ErrNetwork(list[CHOOSE i \in SendErrs(list) :
                            \A j \in SendErrs(list) : j <= i].err)
    ELSE ErrUnexpectedResponses

\* The error store_chunk returns when no majority was reached.
StoreChunkFailure(list) ==
    IF StoreChunkErrs(list) # {}
    THEN ErrProtocol(list[MinIndex(StoreChunkErrs(list))].result)
    ELSE IF SendErrs(list) # {}
    THEN ErrNetwork(list[MinIndex(SendErrs(list))].err)
    ELSE ErrUnexpectedResponses

\* A slip of the order: the responses are searched for a rejection before the
\* successes are counted.
store_chunk_errors_first(sent) ==
    IF sent.tag = "Err.Network" THEN ErrNetwork(sent.err)
    ELSE IF StoreChunkErrs(sent.list) # {} THEN StoreChunkFailure(sent.list)
    ELSE IF StoreMajorityReached(sent.list) THEN OkUnit
    ELSE StoreChunkFailure(sent.list)

\* store_chunk: the value returned for what send_to_closest gave.
store_chunk(sent) ==
    IF sent.tag = "Err.Network" THEN ErrNetwork(sent.err)
    ELSE IF StoreMajorityReached(sent.list) THEN OkUnit
    ELSE StoreChunkFailure(sent.list)

\* One call of store_chunk: the network answers, the call reduces the answers.
StoreChunk ==
    /\ store_result = NotReturned
    /\ \E sent \in SendOutcomes :
          /\ responses' = sent
          /\ store_result' = store_chunk(sent)
    /\ UNCHANGED <<first_result, okVars, sameVars, gcVars, bootVars, rdVars, nodeVars>>

\* The answers of the same group to a resent command: a member that
\* acknowledged the command acknowledges the replay, the others answer as
\* they will.
RECURSIVE Replays(_)
Replays(list) ==
    IF list = <<>> THEN {<<>>}
    ELSE {<<head>> \o tail :
            head \in (IF IsStoreChunkOk(Head(list))
                      THEN {Head(list)}
                      ELSE StoreResponseValues),
            tail \in Replays(Tail(list))}

\* A second call of store_chunk with the command the first call had
\* acknowledged, to the same group. &self holds nothing of the first call.
StoreChunkResend ==
    /\ store_result = OkUnit
    /\ first_result = NotReturned
    /\ first_result' = store_result
    /\ \E list \in Replays(responses.list) :
          /\ responses' = [tag |-> "Ok", list |-> list]
          /\ store_result' = store_chunk([tag |-> "Ok", list |-> list])
    /\ UNCHANGED <<okVars, sameVars, gcVars, bootVars, rdVars, nodeVars>>

(***************************************************************************)
(* Client::expect_closest_majority_ok                                      *)
(***************************************************************************)
\* What one send_request future can complete with.
SpendReplyValues ==
    {SpendResponse("Ok")}
        \cup {SpendResponse(e) : e \in ProtocolErrors}
        \cup {StoreChunkResponse("Ok")}
        \cup {NetworkErr(e) : e \in NetworkErrors}

\* The first match arm: Ok(Response::Cmd(CmdResponse::Spend(Ok(()))))
IsSpendOk(reply) == reply.tag = "Cmd.Spend" /\ reply.result = "Ok"

\* self.network.client_get_closest_peers(..).await?, then one send_request
\* future per resolved peer: the futures, or the failure of the lookup.
SpendDispatches ==
    {[tag |-> "Ok", futures |-> b] : b \in FuturesOver(SpendReplyValues)}
        \cup {NetworkErr(e) : e \in NetworkErrors}

\* A slip of the comparison: one acknowledgement more than the majority.
OkMajorityStrict(count) == count > close_group_majority

\* ok_responses >= close_group_majority()
OkMajorityReached(count) == count >= close_group_majority

\* A slip of the format arguments: the threshold where the count belongs.
OkNotEnoughSwapped(count) == ErrCouldNotVerifyTransfer(close_group_majority, count)

\* The error after the loop: "Got {ok_responses}, required: {close_group_majority()}"
OkNotEnough(count) == ErrCouldNotVerifyTransfer(count, close_group_majority)

\* A slip that lets a peer's network error leave the call (as `?` would).
OkCompletionPropagating(count, remaining, reply) ==
    LET c == IF IsSpendOk(reply) THEN count + 1 ELSE count
    IN  IF IsSpendOk(reply) /\ OkMajorityReached(c)
        THEN [pc |-> "done", count |-> c, result |-> OkUnit]
        ELSE IF reply.tag = "Err.Network"
        THEN [pc |-> "done", count |-> c, result |-> ErrNetwork(reply.err)]
        ELSE IF remaining = EmptyBag
        THEN [pc |-> "done", count |-> c, result |-> OkNotEnough(c)]
        ELSE [pc |-> "select", count |-> c, result |-> NotReturned]

\* One iteration of the while loop on the completion select_all yielded, with
\* `remaining` futures left, up to the next await or the return.
\* A slip of the loop condition: the loop is not left when no request is
\* left in flight.
OkCompletionNoExit(count, remaining, reply) ==
    LET c == IF IsSpendOk(reply) THEN count + 1 ELSE count
    IN  IF IsSpendOk(reply) /\ OkMajorityReached(c)
        THEN [pc |-> "done", count |-> c, result |-> OkUnit]
        ELSE [pc |-> "select", count |-> c, result |-> NotReturned]

OkCompletion(count, remaining, reply) ==
    LET c == IF IsSpendOk(reply) THEN count + 1 ELSE count
    IN  IF IsSpendOk(reply) /\ OkMajorityReached(c)
        THEN [pc |-> "done", count |-> c, result |-> OkUnit]
        ELSE IF remaining = EmptyBag
        THEN [pc |-> "done", count |-> c, result |-> OkNotEnough(c)]
        ELSE [pc |-> "select", count |-> c, result |-> NotReturned]

\* The call up to its first select_all: resolve the closest peers, build one
\* future per peer; with no peer the loop is skipped and the call fails.
OkGetClosestPeers ==
    /\ ok_pc = "start"
    /\ \E out \in SpendDispatches :
          IF out.tag = "Err.Network"
          THEN /\ ok_pc' = "done"
               /\ ok_futures' = EmptyBag
               /\ ok_result' = ErrNetwork(out.err)
          ELSE /\ ok_futures' = out.futures
               /\ ok_pc' = IF out.futures = EmptyBag THEN "done" ELSE "select"
               /\ ok_result' =
                     IF out.futures = EmptyBag THEN OkNotEnough(0) ELSE NotReturned
    /\ UNCHANGED <<ok_responses, ok_completed, storeVars, sameVars, gcVars, bootVars, rdVars, nodeVars>>

\* select_all(list_of_futures).await yields the next completion, whichever
\* request it belongs to; the loop body handles it.
OkSelectAll ==
    /\ ok_pc = "select"
    /\ \E reply \in BagToSet(ok_futures) :
          LET remaining_futures == ok_futures (-) SetToBag({reply})
              after == OkCompletion(ok_responses, remaining_futures, reply)
          IN  /\ ok_completed' = Append(ok_completed, reply)
              /\ ok_futures' = remaining_futures
              /\ ok_responses' = after.count
              /\ ok_pc' = after.pc
              /\ ok_result' = after.result
    /\ UNCHANGED <<storeVars, sameVars, gcVars, bootVars, rdVars, nodeVars>>

(***************************************************************************)
(* Client::expect_closest_majority_same                                    *)
(***************************************************************************)
\* The identifiers a spend can be asked for.
DbcIds == {1, 2}

\* What a SignedSpend can hold besides its identifier (what structural
\* equality tells apart between two spends of one identifier).
SpendContents == {"A", "B", "C"}

\* SignedSpend: dbc_id() and the rest of the certificate.
SignedSpends == [id : DbcIds, content : SpendContents]

\* What one send_request future can complete with.
SameReplyValues ==
    {GetDbcSpendOk(spend) : spend \in SignedSpends}
        \cup {GetDbcSpendErr("SpendRejected"),
              SpendResponse("Ok"),
              NetworkErr("Timeout")}

\* client_get_closest_peers(..).await?, then one send_request future per
\* resolved peer: the futures, or the failure of the lookup.
SameDispatches ==
    {[tag |-> "Ok", futures |-> b] : b \in FuturesOver(SameReplyValues)}
        \cup {NetworkErr(e) : e \in NetworkErrors}

\* The first match arm: Ok(Response::Query(QueryResponse::GetDbcSpend(Ok(_))))
IsGetDbcSpendOk(reply) == reply.tag = "Query.GetDbcSpend" /\ reply.result = "Ok"

\* A slip that leaves the identifier test out: every returned spend is pushed.
SameAccumulateAnyId(acc, id, reply) ==
    IF IsGetDbcSpendOk(reply) THEN Append(acc, reply.spend) ELSE acc

\* if dbc_id == received_spend.dbc_id() { ok_responses.push(received_spend) }
SameAccumulate(acc, id, reply) ==
    IF IsGetDbcSpendOk(reply) /\ reply.spend.id = id
    THEN Append(acc, reply.spend)
    ELSE acc

\* into_group_map(): the size of the group of the key `spend`.
GroupSize(acc, spend) == Cardinality({i \in DOMAIN acc : acc[i] = spend})

\* A slip of the grouping key: spends grouped by identifier, not by equality.
MajorityAgreementById(acc) ==
    LET size(s) == Cardinality({i \in DOMAIN acc : acc[i].id = s.id})
        enough == {s \in {acc[i] : i \in DOMAIN acc} :
                      size(s) >= close_group_majority}
    IN  {s \in enough : \A t \in enough : size(t) <= size(s)}

\* A slip of the reduction: the spend pushed first, once enough were pushed.
MajorityAgreementFirst(acc) == IF acc = <<>> THEN {} ELSE {acc[1]}

\* A slip that leaves the filter out: the largest group, whatever its size.
MajorityAgreementUnfiltered(acc) ==
    LET groups == {acc[i] : i \in DOMAIN acc}
    IN  {s \in groups : \A t \in groups : GroupSize(acc, t) <= GroupSize(acc, s)}

\* The groups of equal spends with at least close_group_majority() members,
\* of these the largest (.filter(..).max_by_key(..)); the map is a HashMap, so
\* which of several largest groups comes out is not determined.
MajorityAgreement(acc) ==
    LET enough == {s \in {acc[i] : i \in DOMAIN acc} :
                      GroupSize(acc, s) >= close_group_majority}
    IN  {s \in enough : \A t \in enough : GroupSize(acc, t) <= GroupSize(acc, s)}

\* A slip of the reported count: the largest group instead of the accumulator.
SameNotEnoughLargestGroup(acc) ==
    ErrCouldNotVerifyTransfer(
        IF acc = <<>> THEN 0
        ELSE GroupSize(acc, CHOOSE s \in {acc[i] : i \in DOMAIN acc} :
                 \A t \in {acc[i] : i \in DOMAIN acc} :
                     GroupSize(acc, t) <= GroupSize(acc, s)),
        close_group_majority)

\* The error after the loop: "Got {ok_responses.len()}, required: {..}"
SameNotEnough(acc) == ErrCouldNotVerifyTransfer(Len(acc), close_group_majority)

\* One iteration of the while loop on the completion select_all yielded, with
\* `remaining` futures left, up to the next await or the return: the states
\* the call can be in afterwards (several only if several groups can come out
\* of max_by_key).
SameCompletion(acc, id, remaining, reply) ==
    LET pushed == SameAccumulate(acc, id, reply)
        agreed == IF IsGetDbcSpendOk(reply) /\ Len(pushed) >= close_group_majority
                  THEN MajorityAgreement(pushed)
                  ELSE {}
    IN  IF agreed # {}
        THEN {[pc |-> "done", acc |-> pushed, result |-> OkSpend(spend)] :
                 spend \in agreed}
        ELSE IF remaining = EmptyBag
        THEN {[pc |-> "done", acc |-> pushed, result |-> SameNotEnough(pushed)]}
        ELSE {[pc |-> "select", acc |-> pushed, result |-> NotReturned]}

\* The call up to its first select_all: resolve the closest peers, build one
\* future per peer; with no peer the loop is skipped and the call fails.
SameGetClosestPeers ==
    /\ same_pc = "start"
    /\ \E id \in DbcIds, out \in SameDispatches :
          /\ dbc_id' = id
          /\ IF out.tag = "Err.Network"
             THEN /\ same_pc' = "done"
                  /\ same_futures' = EmptyBag
                  /\ same_result' = ErrNetwork(out.err)
             ELSE /\ same_futures' = out.futures
                  /\ same_pc' = IF out.futures = EmptyBag THEN "done" ELSE "select"
                  /\ same_result' =
                        IF out.futures = EmptyBag
                        THEN SameNotEnough(<<>>)
                        ELSE NotReturned
    /\ UNCHANGED <<same_responses, same_completed, storeVars, okVars, gcVars, bootVars, rdVars, nodeVars>>

\* select_all(list_of_futures).await yields the next completion, whichever
\* request it belongs to; the loop body handles it.
SameSelectAll ==
    /\ same_pc = "select"
    /\ \E reply \in BagToSet(same_futures) :
          LET remaining_futures == same_futures (-) SetToBag({reply})
          IN  \E after \in SameCompletion(same_responses, dbc_id,
                                           remaining_futures, reply) :
                  /\ same_completed' = Append(same_completed, reply)
                  /\ same_futures' = remaining_futures
                  /\ same_responses' = after.acc
                  /\ same_pc' = after.pc
                  /\ same_result' = after.result
    /\ UNCHANGED <<dbc_id, storeVars, okVars, gcVars, bootVars, rdVars, nodeVars>>

(***************************************************************************)
(* Client::get_chunk                                                       *)
(***************************************************************************)
\* The contents a chunk can have.
ChunkContents == 1..6

\* Chunk::name(): the name of a chunk is derived from its content (the
\* storage module is not among the sources; the derivation stands for the
\* content hash: distinct contents, distinct names, no name its own content).
ChunkName(content) == (content * 7) % 11

\* The addresses a caller can ask for: the names of the chunks.
ChunkAddresses == {ChunkName(c) : c \in ChunkContents}

\* Failures of the local node inside the lookup (the inner Err).
LocalErrors == {"RecordNotFound", "InternalMsgChannelDropped"}

\* QueryResponse::GetChunk(Ok(chunk))
GetChunkOk(content) == [tag |-> "Query.GetChunk", result |-> "Ok", chunk |-> content]

\* QueryResponse::GetChunk(Err(e))
GetChunkErr(e) == [tag |-> "Query.GetChunk", result |-> e]

\* The inner Err(err) of get_provided_data
LocalErr(e) == [tag |-> "Err.Local", err |-> e]

\* self.network.get_provided_data(key).await: the failure of the call (left
\* by `?`), a query response of any kind, or a local error.
ProvidedData ==
    {NetworkErr(e) : e \in NetworkErrors}
        \cup {LocalErr(e) : e \in LocalErrors}
        \cup {GetChunkOk(c) : c \in ChunkContents}
        \cup {GetChunkErr(e) : e \in ProtocolErrors}
        \cup {GetDbcSpendOk(spend) : spend \in SignedSpends}
        \cup {GetDbcSpendErr(e) : e \in ProtocolErrors}

\* Ok(chunk)
OkChunk(content) == [tag |-> "Ok", chunk |-> content]

\* A slip of the last arm: a local error reported as an unexpected response.
get_chunk_swallowing(provided) ==
    IF provided.tag = "Err.Network" THEN ErrNetwork(provided.err)
    ELSE IF provided.tag = "Query.GetChunk"
    THEN IF provided.result = "Ok"
         THEN OkChunk(provided.chunk)
         ELSE ErrProtocol(provided.result)
    ELSE ErrUnexpectedResponses

\* The match on what the lookup yielded: `?` on the call, Ok(GetChunk(result))
\* => Ok(result?), Ok(other) => UnexpectedResponses, Err(err) => Err(err.into()).
get_chunk(provided) ==
    IF provided.tag = "Err.Network" THEN ErrNetwork(provided.err)
    ELSE IF provided.tag = "Query.GetChunk"
    THEN IF provided.result = "Ok"
         THEN OkChunk(provided.chunk)
         ELSE ErrProtocol(provided.result)
    ELSE IF provided.tag = "Err.Local" THEN ErrNetwork(provided.err)
    ELSE ErrUnexpectedResponses

\* The call up to its await: the lookup of the address is started.
GetChunkCall ==
    /\ gc_pc = "start"
    /\ \E address \in ChunkAddresses : gc_address' = address
    /\ gc_lookups' = gc_lookups + 1
    /\ gc_pc' = "lookup"
    /\ UNCHANGED <<gc_provided, gc_result, storeVars, okVars, sameVars, bootVars, rdVars, nodeVars>>

\* The lookup completes and the call returns.
GetChunkReturn ==
    /\ gc_pc = "lookup"
    /\ \E provided \in ProvidedData :
          /\ gc_provided' = provided
          /\ gc_result' = get_chunk(provided)
    /\ gc_pc' = "done"
    /\ UNCHANGED <<gc_address, gc_lookups, storeVars, okVars, sameVars, bootVars, rdVars, nodeVars>>

(***************************************************************************)
(* Client::new and Client::handle_network_event                            *)
(***************************************************************************)
\* The peers the network layer can report.
PeerIds == 1..(CLOSE_GROUP_SIZE + 1)

\* The argument peers: None, or Some(list of seed peers).
NoPeers == [some |-> FALSE, list |-> <<>>]

SomePeers(list) == [some |-> TRUE, list |-> list]

PeersArguments == {NoPeers, SomePeers(<<>>), SomePeers(<<1>>), SomePeers(<<1, 2>>)}

\* NetworkEvent
PeerAdded(peer) == [tag |-> "PeerAdded", peer |-> peer]

RequestReceived == [tag |-> "RequestReceived"]

NewListenAddr == [tag |-> "NewListenAddr"]

NetworkEvents == {PeerAdded(p) : p \in PeerIds} \cup {RequestReceived, NewListenAddr}

\* Ok(client)
OkClient == [tag |-> "Ok", client |-> "Client"]

\* NetworkAddress::from_peer(peer_id)
NetworkAddressFromPeer(peer) == [kind |-> "PeerId", peer |-> peer]

\* A slip of the match: every event treated as a new connection.
handle_network_event_any(event) ==
    [broadcast |-> 1,
     probes |-> IF event.tag = "PeerAdded"
                THEN SetToBag({NetworkAddressFromPeer(event.peer)})
                ELSE SetToBag({NetworkAddressFromPeer(1)})]

\* handle_network_event: the ConnectedToNetwork events it broadcasts and the
\* closest-peer probes it spawns (their targets) for one network event.
handle_network_event(event) ==
    IF event.tag = "PeerAdded"
    THEN [broadcast |-> 1,
          probes |-> SetToBag({NetworkAddressFromPeer(event.peer)})]
    ELSE [broadcast |-> 0, probes |-> EmptyBag]

\* events_channel.broadcast(..): the event is queued for the subscriber there
\* is; with no subscriber yet it is dropped.
Broadcast(is_subscribed, pending, n) == IF is_subscribed THEN pending + n ELSE pending

\* Whether the top of the handler loop spawns the dialing task.
SpawnsDial(args, must_dial) == args.some /\ must_dial

\* A slip that leaves `must_dial_network = false` out.
MustDialKept(args, must_dial) == must_dial

\* must_dial_network after the top of the handler loop.
MustDialAfter(args, must_dial) == IF SpawnsDial(args, must_dial) THEN FALSE ELSE must_dial

\* The wait loop is left: !(added_node <= CLOSE_GROUP_SIZE)
EnoughNodes(count) == ~(count <= CLOSE_GROUP_SIZE)

\* Client::new up to the spawn of the event handler task: the swarm driver is
\* built (or that fails, and `?` returns), the client is made, the tasks are
\* spawned.
NewSpawn ==
    /\ new_pc = "start"
    /\ \E args \in PeersArguments : peers' = args
    /\ \E built \in {OkUnit} \cup {ErrNetwork(e) : e \in NetworkErrors} :
          IF built = OkUnit
          THEN /\ new_pc' = "spawned"
               /\ handler_pc' = "spawned"
               /\ new_result' = NotReturned
          ELSE /\ new_pc' = "done"
               /\ handler_pc' = handler_pc
               /\ new_result' = built
    /\ UNCHANGED <<added_node, must_dial_network, net_closed, connected, others_handled,
                   dialVars, channelVars, probeVars, callVars>>

\* let mut client_events_rx = client.events_channel(); let mut added_node = 0;
NewSubscribe ==
    /\ new_pc = "spawned"
    /\ subscribed' = TRUE
    /\ added_node' = 0
    /\ new_pc' = "waiting"
    /\ UNCHANGED <<new_result, peers, handlerVars, dialVars, rx_pending, broadcasts,
                   probeVars, callVars>>

\* client_events_rx.recv().await yields a ConnectedToNetwork event: it is
\* counted, and the loop is left once enough were.
NewRecv ==
    /\ new_pc = "waiting"
    /\ rx_pending > 0
    /\ rx_pending' = rx_pending - 1
    /\ added_node' = added_node + 1
    /\ new_pc' = IF EnoughNodes(added_node + 1) THEN "done" ELSE "waiting"
    /\ new_result' = IF EnoughNodes(added_node + 1) THEN OkClient ELSE NotReturned
    /\ UNCHANGED <<peers, handlerVars, dialVars, subscribed, broadcasts,
                   probeVars, callVars>>

\* The event handler task starts: the top of its loop, up to recv().await.
HandlerStart ==
    /\ handler_pc = "spawned"
    /\ dial_pos' = IF SpawnsDial(peers, must_dial_network)
                   THEN Append(dial_pos, 1)
                   ELSE dial_pos
    /\ must_dial_network' = MustDialAfter(peers, must_dial_network)
    /\ handler_pc' = "recv"
    /\ UNCHANGED <<newVars, net_closed, connected, others_handled, dial_log,
                   channelVars, probeVars, callVars>>

\* network_event_receiver.recv().await yields an event: it is handled, and the
\* loop runs on through its top to the next recv().await.
HandlerRecv ==
    /\ handler_pc = "recv"
    /\ ~net_closed
    /\ BagCardinality(connected) + others_handled < MaxEvents
    /\ \E event \in NetworkEvents :
          LET handled == handle_network_event(event)
          IN  /\ connected' = IF event.tag = "PeerAdded"
                              THEN connected (+) SetToBag({event.peer})
                              ELSE connected
              /\ others_handled' = IF event.tag = "PeerAdded"
                                   THEN others_handled
                                   ELSE others_handled + 1
              /\ broadcasts' = broadcasts + handled.broadcast
              /\ rx_pending' = Broadcast(subscribed, rx_pending, handled.broadcast)
              /\ probes_started' = probes_started (+) handled.probes
    /\ dial_pos' = IF SpawnsDial(peers, must_dial_network)
                   THEN Append(dial_pos, 1)
                   ELSE dial_pos
    /\ must_dial_network' = MustDialAfter(peers, must_dial_network)
    /\ UNCHANGED <<newVars, handler_pc, net_closed, dial_log, subscribed,
                   probes_done, callVars>>

\* The sender of the NetworkEvent channel goes away.
NetworkClose ==
    /\ handler_pc # "idle"
    /\ ~net_closed
    /\ net_closed' = TRUE
    /\ UNCHANGED <<newVars, handler_pc, must_dial_network, connected, others_handled,
                   dialVars, channelVars, probeVars, callVars>>

\* recv() yields None: the error is logged and the loop continues, through
\* its top, to the same recv().await.
HandlerRecvNone ==
    /\ handler_pc = "recv"
    /\ net_closed
    /\ dial_pos' = IF SpawnsDial(peers, must_dial_network)
                   THEN Append(dial_pos, 1)
                   ELSE dial_pos
    /\ must_dial_network' = MustDialAfter(peers, must_dial_network)
    /\ UNCHANGED <<newVars, handler_pc, net_closed, connected, others_handled,
                   dial_log, channelVars, probeVars, callVars>>

\* A dialing task dials its next seed peer; a failure is logged.
DialNext ==
    /\ \E task \in DOMAIN dial_pos :
          /\ dial_pos[task] <= Len(peers.list)
          /\ \E outcome \in {"Ok", "DialError"} :
                dial_log' = Append(dial_log,
                                   [seed |-> peers.list[dial_pos[task]],
                                    outcome |-> outcome])
          /\ dial_pos' = [dial_pos EXCEPT ![task] = @ + 1]
    /\ UNCHANGED <<newVars, handlerVars, channelVars, probeVars, callVars>>

\* A closest-peer probe completes, with whatever result: it is traced.
ProbeDone ==
    /\ probes_done < BagCardinality(probes_started)
    /\ probes_done' = probes_done + 1
    /\ UNCHANGED <<newVars, handlerVars, dialVars, channelVars, probes_started, callVars>>

(***************************************************************************)
(* ReplicatedData::name and ReplicatedData::dst                            *)
(***************************************************************************)
\* RegisterAddress { name, tag }
RegisterNames == {21, 22}

RegisterTags == {0, 1}

RegisterAddresses == [xorname : RegisterNames, tag : RegisterTags]

\* DbcAddress::from_dbc_id(dbc_id): an address derived from the identifier.
DbcAddressFromDbcId(id) == [xorname |-> (id * 3 + 4) % 7]

\* The spend addresses: those of the identifiers, and one of no identifier
\* of the model.
DbcAddresses == {DbcAddressFromDbcId(id) : id \in DbcIds} \cup {[xorname |-> 5]}

\* chunk.address()
ChunkAddressOf(content) == [xorname |-> ChunkName(content)]

\* The values of ReplicatedData.
RdChunk(content) == [variant |-> "Chunk", chunk |-> content]

RdRegisterWrite(address, op) ==
    [variant |-> "RegisterWrite", cmd |-> [dst |-> address, op |-> op]]

RdRegisterLog(address, log) ==
    [variant |-> "RegisterLog", log |-> [address |-> address, op_log |-> log]]

RdValidSpend(spend) == [variant |-> "ValidSpend", spend |-> spend]

RdDoubleSpend(address, spends) ==
    [variant |-> "DoubleSpend", address |-> address, spends |-> spends]

ReplicatedDataValues ==
    {RdChunk(c) : c \in ChunkContents}
        \cup {RdRegisterWrite(a, op) : a \in RegisterAddresses, op \in {"Create", "Edit"}}
        \cup {RdRegisterLog(a, l) : a \in RegisterAddresses, l \in {<<>>, <<"Edit">>}}
        \cup {RdValidSpend(spend) : spend \in SignedSpends}
        \cup {RdDoubleSpend(a, spends) : a \in DbcAddresses, spends \in SUBSET SignedSpends}

\* NetworkAddress::from_chunk_address, from_register_address,
\* from_dbc_address: the name of the address under a tag of its kind.
NetworkAddressFromChunkAddress(address) ==
    [kind |-> "ChunkAddress", key |-> address.xorname]

NetworkAddressFromRegisterAddress(address) ==
    [kind |-> "RegisterAddress", key |-> address.xorname]

NetworkAddressFromDbcAddress(address) ==
    [kind |-> "DbcAddress", key |-> address.xorname]

\* A slip of the DoubleSpend arm: the name taken from a certificate of the
\* set where there is one.
name_of_spends(data) ==
    IF data.variant = "Chunk" THEN ChunkName(data.chunk)
    ELSE IF data.variant = "RegisterLog" THEN data.log.address.xorname
    ELSE IF data.variant = "RegisterWrite" THEN data.cmd.dst.xorname
    ELSE IF data.variant = "ValidSpend" THEN DbcAddressFromDbcId(data.spend.id).xorname
    ELSE IF data.spends = {} THEN data.address.xorname
    ELSE DbcAddressFromDbcId((CHOOSE spend \in data.spends : TRUE).id).xorname

\* ReplicatedData::name
name(data) ==
    IF data.variant = "Chunk" THEN ChunkName(data.chunk)
    ELSE IF data.variant = "RegisterLog" THEN data.log.address.xorname
    ELSE IF data.variant = "RegisterWrite" THEN data.cmd.dst.xorname
    ELSE IF data.variant = "ValidSpend" THEN DbcAddressFromDbcId(data.spend.id).xorname
    ELSE data.address.xorname

\* ReplicatedData::dst
dst(data) ==
    IF data.variant = "Chunk"
    THEN NetworkAddressFromChunkAddress(ChunkAddressOf(data.chunk))
    ELSE IF data.variant = "RegisterLog"
    THEN NetworkAddressFromRegisterAddress(data.log.address)
    ELSE IF data.variant = "RegisterWrite"
    THEN NetworkAddressFromRegisterAddress(data.cmd.dst)
    ELSE IF data.variant = "ValidSpend"
    THEN NetworkAddressFromDbcAddress(DbcAddressFromDbcId(data.spend.id))
    ELSE NetworkAddressFromDbcAddress(data.address)

\* name() and dst() are called on a value of ReplicatedData, the first or
\* the second of two.
ReplicatedDataCall ==
    /\ rd_pc < 2
    /\ rd_pc' = rd_pc + 1
    /\ \E data \in ReplicatedDataValues :
          /\ rd_data' = Append(rd_data, data)
          /\ rd_name' = Append(rd_name, name(data))
          /\ rd_dst' = Append(rd_dst, dst(data))
    /\ UNCHANGED <<storeVars, okVars, sameVars, gcVars, bootVars, nodeVars>>

(***************************************************************************)
(* safenode: main, start_node and monitor_node_events                      *)
(***************************************************************************)
\* let (ctrl_tx, mut ctrl_rx) = mpsc::channel::<NodeCtrl>(5);
CtrlCapacity == 5

\* eyre!("Node events channel closed!")
EventsChannelClosed == "Node events channel closed!"

\* The causes of a Stop: that of the monitoring task, and one of the RPC
\* service.
StopCauses == {EventsChannelClosed, "Stop requested over RPC"}

\* NodeCtrl (the delays only lengthen the sleep before the command acts)
Restart == [cmd |-> "Restart"]

Stop(cause) == [cmd |-> "Stop", cause |-> cause]

Update == [cmd |-> "Update"]

\* The commands the RPC service can send.
RpcCommands == {Restart, Update, Stop("Stop requested over RPC")}

\* What ctrl_rx.recv().await yields: Some(cmd), or None.
SomeCtrl(cmd) == [some |-> TRUE, cmd |-> cmd]

NoneCtrl == [some |-> FALSE]

\* Err(cause)
ErrReport(cause) == [tag |-> "Err.Report", cause |-> cause]

\* A slip of the Update arm: an update restarts the node.
start_node_update_restarts(msg) ==
    IF ~msg.some THEN [next |-> "break", result |-> OkUnit]
    ELSE IF msg.cmd.cmd = "Restart" THEN [next |-> "break", result |-> OkUnit]
    ELSE IF msg.cmd.cmd = "Stop"
    THEN [next |-> "return", result |-> ErrReport(msg.cmd.cause)]
    ELSE [next |-> "break", result |-> OkUnit]

\* One iteration of the control loop of start_node on what recv() yielded:
\* break Ok(()), return Err(cause), or go round again.
start_node(msg) ==
    IF ~msg.some THEN [next |-> "break", result |-> OkUnit]
    ELSE IF msg.cmd.cmd = "Restart" THEN [next |-> "break", result |-> OkUnit]
    ELSE IF msg.cmd.cmd = "Stop"
    THEN [next |-> "return", result |-> ErrReport(msg.cmd.cause)]
    ELSE [next |-> "loop", result |-> NotReturned]

\* A slip of the Lagged arm: lag is taken for the end of the channel.
monitor_node_events_lag_stops(received) ==
    IF received \in {"Closed", "Lagged"} THEN "send" ELSE "recv"

\* monitor_node_events on what node_events_rx.recv().await yielded: whether
\* it goes on to send a Stop or back to recv().
monitor_node_events(received) ==
    IF received = "Closed" THEN "send" ELSE "recv"

\* main, one round of its loop up to the control loop of start_node: a
\* runtime is made and start_node is run; Node::run fails (and `?` ends the
\* process) or the node runs, the channels are made and the monitoring task
\* is spawned. The command line is read before the first round.
MainStartNode ==
    /\ node_pc = "start"
    /\ attempts < MaxAttempts
    /\ attempts' = attempts + 1
    /\ rpc' \in (IF attempts = 0 THEN BOOLEAN ELSE {rpc})
    /\ \E running \in {OkUnit, ErrReport("Node::run failed")} :
          IF running = OkUnit
          THEN /\ node_pc' = "running"
               /\ node_result' = NotReturned
               /\ monitor_pc' = "recv"
          ELSE /\ node_pc' = "exited"
               /\ node_result' = running
               /\ monitor_pc' = "idle"
    /\ ctrl_rx' = <<>>
    /\ node_events_closed' = FALSE
    /\ lagged' = 0
    /\ UNCHANGED <<rpc_cmds, clientVars>>

\* ctrl_rx.recv().await yields the oldest command; start_node breaks, returns
\* or goes round again. When it ends the runtime is shut down, and with it
\* the monitoring task and the channels; an Err ends main.
StartNodeRecv ==
    /\ node_pc = "running"
    /\ ctrl_rx # <<>>
    /\ LET after == start_node(SomeCtrl(Head(ctrl_rx)))
       IN  IF after.next = "loop"
           THEN /\ ctrl_rx' = Tail(ctrl_rx)
                /\ UNCHANGED <<node_pc, node_result, monitor_pc, node_events_closed, lagged>>
           ELSE /\ ctrl_rx' = <<>>
                /\ node_pc' = IF after.result = OkUnit THEN "start" ELSE "exited"
                /\ node_result' = IF after.result = OkUnit THEN NotReturned ELSE after.result
                /\ monitor_pc' = "idle"
                /\ node_events_closed' = FALSE
                /\ lagged' = 0
    /\ UNCHANGED <<attempts, rpc, rpc_cmds, clientVars>>

\* The RPC service, if enabled, sends a command.
RpcSend ==
    /\ node_pc = "running"
    /\ rpc
    /\ rpc_cmds < MaxCtrlCmds
    /\ Len(ctrl_rx) < CtrlCapacity
    /\ \E cmd \in RpcCommands : ctrl_rx' = Append(ctrl_rx, cmd)
    /\ rpc_cmds' = rpc_cmds + 1
    /\ UNCHANGED <<node_pc, node_result, attempts, rpc, monitor_pc, node_events_closed,
                   lagged, clientVars>>

\* The node drops the sender of its events channel.
NodeEventsClose ==
    /\ node_pc = "running"
    /\ ~node_events_closed
    /\ node_events_closed' = TRUE
    /\ UNCHANGED <<node_pc, node_result, attempts, rpc, ctrl_rx, rpc_cmds, monitor_pc,
                   lagged, clientVars>>

\* node_events_rx.recv().await yields an event: it is logged or ignored.
MonitorRecvEvent ==
    /\ monitor_pc = "recv"
    /\ ~node_events_closed
    /\ \E received \in {"ConnectedToNetwork", "Other"} :
          monitor_pc' = monitor_node_events(received)
    /\ UNCHANGED <<node_pc, node_result, attempts, rpc, ctrl_rx, rpc_cmds,
                   node_events_closed, lagged, clientVars>>

\* node_events_rx.recv().await yields Err(Lagged(n)).
MonitorRecvLagged ==
    /\ monitor_pc = "recv"
    /\ lagged < MaxLagged
    /\ lagged' = lagged + 1
    /\ monitor_pc' = monitor_node_events("Lagged")
    /\ UNCHANGED <<node_pc, node_result, attempts, rpc, ctrl_rx, rpc_cmds,
                   node_events_closed, clientVars>>

\* node_events_rx.recv().await yields Err(Closed).
MonitorRecvClosed ==
    /\ monitor_pc = "recv"
    /\ node_events_closed
    /\ monitor_pc' = monitor_node_events("Closed")
    /\ UNCHANGED <<node_pc, node_result, attempts, rpc, ctrl_rx, rpc_cmds,
                   node_events_closed, lagged, clientVars>>

\* ctrl_tx.send(NodeCtrl::Stop { .. }).await: the command is queued when the
\* channel has room, and the task goes back to recv().
MonitorSendStop ==
    /\ monitor_pc = "send"
    /\ Len(ctrl_rx) < CtrlCapacity
    /\ ctrl_rx' = Append(ctrl_rx, Stop(EventsChannelClosed))
    /\ monitor_pc' = "recv"
    /\ UNCHANGED <<node_pc, node_result, attempts, rpc, rpc_cmds, node_events_closed,
                   lagged, clientVars>>

InitStore ==
    /\ responses = [tag |-> "Ok", list |-> <<>>]
    /\ store_result = NotReturned
    /\ first_result = NotReturned

InitOk ==
    /\ ok_pc = "start"
    /\ ok_futures = EmptyBag
    /\ ok_responses = 0
    /\ ok_completed = <<>>
    /\ ok_result = NotReturned

InitSame ==
    /\ same_pc = "start"
    /\ dbc_id = 1
    /\ same_futures = EmptyBag
    /\ same_responses = <<>>
    /\ same_completed = <<>>
    /\ same_result = NotReturned

InitGetChunk ==
    /\ gc_pc = "start"
    /\ gc_address = ChunkName(1)
    /\ gc_lookups = 0
    /\ gc_provided = NotReturned
    /\ gc_result = NotReturned

InitNew ==
    /\ new_pc = "start"
    /\ new_result = NotReturned
    /\ added_node = 0
    /\ peers = NoPeers
    /\ handler_pc = "idle"
    /\ must_dial_network = TRUE
    /\ dial_pos = <<>>
    /\ dial_log = <<>>
    /\ net_closed = FALSE
    /\ connected = EmptyBag
    /\ others_handled = 0
    /\ subscribed = FALSE
    /\ rx_pending = 0
    /\ broadcasts = 0
    /\ probes_started = EmptyBag
    /\ probes_done = 0

InitReplicatedData ==
    /\ rd_pc = 0
    /\ rd_data = <<>>
    /\ rd_name = <<>>
    /\ rd_dst = <<>>

InitNode ==
    /\ node_pc = "start"
    /\ node_result = NotReturned
    /\ attempts = 0
    /\ rpc = FALSE
    /\ ctrl_rx = <<>>
    /\ rpc_cmds = 0
    /\ monitor_pc = "idle"
    /\ node_events_closed = FALSE
    /\ lagged = 0

Init ==
    /\ InitStore
    /\ InitOk
    /\ InitSame
    /\ InitGetChunk
    /\ InitNew
    /\ InitReplicatedData
    /\ InitNode

NextStore == StoreChunk \/ StoreChunkResend

SpecStore == Init /\ [][NextStore]_vars

NextMajorityOk == OkGetClosestPeers \/ OkSelectAll

SpecMajorityOk == Init /\ [][NextMajorityOk]_vars

NextMajoritySame == SameGetClosestPeers \/ SameSelectAll

SpecMajoritySame == Init /\ [][NextMajoritySame]_vars

NextGetChunk == GetChunkCall \/ GetChunkReturn

SpecGetChunk == Init /\ [][NextGetChunk]_vars

NextNew ==
    \/ NewSpawn
    \/ NewSubscribe
    \/ NewRecv
    \/ HandlerStart
    \/ HandlerRecv
    \/ NetworkClose
    \/ HandlerRecvNone
    \/ DialNext
    \/ ProbeDone

SpecNew == Init /\ [][NextNew]_vars

NextNode ==
    \/ MainStartNode
    \/ StartNodeRecv
    \/ RpcSend
    \/ NodeEventsClose
    \/ MonitorRecvEvent
    \/ MonitorRecvLagged
    \/ MonitorRecvClosed
    \/ MonitorSendStop

SpecNode == Init /\ [][NextNode]_vars

\* The runtime runs the main task and the monitoring task; the RPC service
\* and the node owe the process nothing.
SpecNodeFair ==
    /\ SpecNode
    /\ WF_vars(MainStartNode)
    /\ WF_vars(StartNodeRecv)
    /\ WF_vars(MonitorRecvClosed)
    /\ WF_vars(MonitorSendStop)

NextReplicatedData == ReplicatedDataCall

SpecReplicatedData == Init /\ [][NextReplicatedData]_vars

\* The three quorum operations side by side: a session makes one of the
\* three calls (the calls share no state, so one call at a time shows all
\* that any number of them can do).
StoreIdle == store_result = NotReturned /\ first_result = NotReturned

OkIdle == ok_pc = "start"

SameIdle == same_pc = "start"

\* The two calls that wait for their requests one completion at a time; a
\* request in flight completes in the end, so select_all returns.
NextMajority ==
    \/ SameIdle /\ NextMajorityOk
    \/ OkIdle /\ NextMajoritySame

SpecMajorityFair ==
    /\ Init
    /\ [][NextMajority]_vars
    /\ WF_vars(OkSelectAll)
    /\ WF_vars(SameSelectAll)

NextQuorum ==
    \/ OkIdle /\ SameIdle /\ NextStore
    \/ StoreIdle /\ SameIdle /\ NextMajorityOk
    \/ StoreIdle /\ OkIdle /\ NextMajoritySame

SpecQuorum == Init /\ [][NextQuorum]_vars

\* The tasks of the client are scheduled fairly by the runtime; the network
\* owes the client nothing.
SpecNewFair ==
    /\ SpecNew
    /\ WF_vars(NewSubscribe)
    /\ WF_vars(NewRecv)
    /\ WF_vars(HandlerStart)
    /\ WF_vars(HandlerRecvNone)
    /\ WF_vars(DialNext)
    /\ WF_vars(ProbeDone)

(***************************************************************************)
(* Properties of store_chunk.                                              *)
(***************************************************************************)
\* store_chunk was called and send_to_closest handed it a list of responses.
StoreReturned == store_result # NotReturned /\ responses.tag = "Ok"

\* The number of entries of a list equal to a given response.
Occurrences(list, resp) == Cardinality({i \in 1..Len(list) : list[i] = resp})

\* Whether the entry is an explicit StoreChunk rejection.
IsRejection(resp) == \E e \in ProtocolErrors : resp = StoreChunkResponse(e)

\* Whether the entry is a network error.
IsNetworkErr(resp) == \E e \in NetworkErrors : resp = NetworkErr(e)

NoStoreMajority ==
    Occurrences(responses.list, StoreChunkResponse("Ok")) < close_group_majority

\* C1: store_chunk returns Ok exactly when the number of successful StoreChunk
\* acknowledgements in the response list is at least close_group_majority(),
\* whatever the list, its order, and the rejections, network errors and
\* other-kind responses around the successes.
C1_StoreOkIffMajority ==
    StoreReturned =>
        ((store_result = OkUnit) <=> ~NoStoreMajority)

\* C1 witness: a call that succeeded although a rejection came first and a
\* network error came last.
C1_Witness ==
    /\ StoreReturned
    /\ store_result = OkUnit
    /\ Len(responses.list) >= 3
    /\ IsRejection(responses.list[1])
    /\ IsNetworkErr(responses.list[Len(responses.list)])

\* C2: with no majority and at least one explicit rejection, the error
\* returned is the first rejection in response order, never a network error,
\* even when a network error precedes it.
C2_FirstRejectionSurfaced ==
    StoreReturned /\ NoStoreMajority =>
        \A i \in 1..Len(responses.list) :
            (/\ IsRejection(responses.list[i])
             /\ \A j \in 1..(i - 1) : ~IsRejection(responses.list[j]))
                => store_result = ErrProtocol(responses.list[i].result)

\* C2 witness: a network error arrives first, then two different rejections;
\* the call failed with the first of the two.
C2_Witness ==
    /\ StoreReturned
    /\ Len(responses.list) >= 3
    /\ IsNetworkErr(responses.list[1])
    /\ IsRejection(responses.list[2])
    /\ IsRejection(responses.list[3])
    /\ responses.list[2] # responses.list[3]
    /\ store_result = ErrProtocol(responses.list[2].result)

NoRejection == \A i \in 1..Len(responses.list) : ~IsRejection(responses.list[i])

\* C3 as stated: with no majority and no explicit rejection the call always
\* fails with UnexpectedResponses, network errors among the responses or not.
C3_Original ==
    StoreReturned /\ NoStoreMajority /\ NoRejection =>
        store_result = ErrUnexpectedResponses

\* C3 amended: with no majority and no explicit rejection, the call fails with
\* UnexpectedResponses (a condition that is neither a rejection nor a network
\* error) when no response is a network error, and with the first network
\* error in response order when there is one.
C3_UnexpectedOrFirstNetworkError ==
    StoreReturned /\ NoStoreMajority /\ NoRejection =>
        /\ (\A i \in 1..Len(responses.list) : ~IsNetworkErr(responses.list[i]))
              => /\ store_result = ErrUnexpectedResponses
                 /\ store_result.tag \notin {"Ok", "Err.Protocol", "Err.Network"}
        /\ \A i \in 1..Len(responses.list) :
              (/\ IsNetworkErr(responses.list[i])
               /\ \A j \in 1..(i - 1) : ~IsNetworkErr(responses.list[j]))
                  => store_result = ErrNetwork(responses.list[i].err)

\* C3 witness: two different network errors after a lone success, no
\* rejection: the call failed with the first of the two.
C3_Witness ==
    /\ StoreReturned
    /\ NoRejection
    /\ Len(responses.list) >= 3
    /\ responses.list[1] = StoreChunkResponse("Ok")
    /\ IsNetworkErr(responses.list[2])
    /\ IsNetworkErr(responses.list[3])
    /\ responses.list[2] # responses.list[3]
    /\ store_result = ErrNetwork(responses.list[2].err)

(***************************************************************************)
(* Properties of expect_closest_majority_ok.                               *)
(***************************************************************************)
\* The successful Spend acknowledgements among the completions so far.
SpendOks == Occurrences(ok_completed, SpendResponse("Ok"))

\* The successful Spend acknowledgements among all the peers' replies, those
\* of the requests still in flight (or abandoned) included.
SpendOksOfAll == SpendOks + CopiesIn(SpendResponse("Ok"), ok_futures)

\* C4: the call returns Ok at the very step whose completion brings the count
\* of successful Spend acknowledgements to close_group_majority(): while it is
\* still waiting the count is below the threshold, and when it has returned Ok
\* the last completion handled was the acknowledgement that made the count
\* equal the threshold, whatever is still in flight.
C4_OkAtMajorityStep ==
    /\ ok_pc = "select" => SpendOks < close_group_majority
    /\ ok_result = OkUnit =>
          /\ ok_completed # <<>>
          /\ ok_completed[Len(ok_completed)] = SpendResponse("Ok")
          /\ SpendOks = close_group_majority
          /\ ok_responses = close_group_majority

\* C4 witness: the call has returned Ok while requests are still in flight.
C4_Witness ==
    /\ ok_result = OkUnit
    /\ BagCardinality(ok_futures) >= 2

\* C5: a peer's unexpected response or network error is a non-vote: the call
\* ends only by reaching the majority or by running out of requests, its error
\* is never a peer's network error, and for a given bag of peer replies, in
\* whatever order they complete, the call once returned has succeeded exactly
\* when the successful acknowledgements among the replies are at least
\* close_group_majority().
C5_NonVotesOnlyCount ==
    /\ ok_result.tag = "Err.Network" => ok_completed = <<>>
    /\ (ok_pc = "done" /\ ok_result.tag # "Err.Network") =>
          /\ ok_result = OkUnit \/ ok_futures = EmptyBag
          /\ (ok_result = OkUnit) <=> (SpendOksOfAll >= close_group_majority)

\* C5 witness: the call succeeded after a network error and a response of
\* another kind had completed first.
C5_Witness ==
    /\ ok_result = OkUnit
    /\ Len(ok_completed) = 4
    /\ IsNetworkErr(ok_completed[1])
    /\ ok_completed[2] = StoreChunkResponse("Ok")

\* C6: when every request has completed without the majority being reached,
\* the call fails with CouldNotVerifyTransfer reporting exactly the number of
\* successful acknowledgements observed, which is below the threshold, and
\* the threshold close_group_majority(); it fails that way in no other case.
C6_CouldNotVerifyCounts ==
    /\ (/\ ok_pc = "done"
         /\ ok_result.tag # "Err.Network"
         /\ ok_futures = EmptyBag
         /\ SpendOks < close_group_majority)
            => ok_result = ErrCouldNotVerifyTransfer(SpendOks, close_group_majority)
    /\ ok_result.tag = "Err.CouldNotVerifyTransfer" =>
          /\ ok_futures = EmptyBag
          /\ ok_result.got = SpendOks
          /\ ok_result.got < ok_result.required
          /\ ok_result.required = close_group_majority

\* C6 witness: a failure after one acknowledgement and three non-votes.
C6_Witness ==
    /\ ok_result.tag = "Err.CouldNotVerifyTransfer"
    /\ ok_result.got = 1
    /\ Len(ok_completed) = 4

(***************************************************************************)
(* Properties of expect_closest_majority_same.                             *)
(***************************************************************************)
\* Whether the call has returned after resolving its peers.
SameReturned == same_pc = "done" /\ same_result.tag # "Err.Network"

\* The replies of all the resolved peers that are exactly the certificate
\* `spend`: those completed and those still in flight (or abandoned).
RepliesEqualTo(spend) ==
    Occurrences(same_completed, GetDbcSpendOk(spend))
        + CopiesIn(GetDbcSpendOk(spend), same_futures)

\* The certificates of the requested identifier.
RequestedSpends == {spend \in SignedSpends : spend.id = dbc_id}

\* The completions so far that are certificates of the requested identifier.
RECURSIVE MatchingSpends(_)
MatchingSpends(list) ==
    IF list = <<>> THEN <<>>
    ELSE LET rest == MatchingSpends(SubSeq(list, 1, Len(list) - 1))
             last == list[Len(list)]
         IN  IF last \in {GetDbcSpendOk(spend) : spend \in RequestedSpends}
             THEN Append(rest, last.spend)
             ELSE rest

\* C7: a certificate the call returns carries the requested identifier and
\* is structurally equal to at least close_group_majority() of the responses
\* accumulated (certificates that differ in content are counted apart); it is
\* returned at the step whose completion brought its class to the threshold,
\* and the call never waits on with a class at the threshold.
C7_AgreedSpendHasMajority ==
    /\ same_pc = "select" =>
          \A spend \in SignedSpends :
              Occurrences(same_responses, spend) < close_group_majority
    /\ same_result.tag = "Ok" =>
          /\ same_result.spend.id = dbc_id
          /\ Occurrences(same_responses, same_result.spend) >= close_group_majority
          /\ Occurrences(same_completed, GetDbcSpendOk(same_result.spend))
                = close_group_majority
          /\ same_completed[Len(same_completed)] = GetDbcSpendOk(same_result.spend)

\* C7 witness: a certificate was returned with a request still in flight,
\* after a certificate of the same identifier and other content had arrived.
C7_Witness ==
    /\ same_result.tag = "Ok"
    /\ same_futures # EmptyBag
    /\ \E spend \in RequestedSpends :
          /\ spend # same_result.spend
          /\ Occurrences(same_responses, spend) = 1

\* C8: for a given bag of peer replies, in whatever order they complete, the
\* call once returned has succeeded exactly when some class of equal
\* certificates of the requested identifier among the replies has at least
\* close_group_majority() members, and the certificate returned is of such a
\* class ({A, A, B} returns A).
C8_SuccessIffAgreeingClass ==
    SameReturned =>
        /\ (same_result.tag = "Ok") <=>
              (\E spend \in RequestedSpends :
                  RepliesEqualTo(spend) >= close_group_majority)
        /\ same_result.tag = "Ok" =>
              /\ same_result.spend \in RequestedSpends
              /\ RepliesEqualTo(same_result.spend) >= close_group_majority

\* C8 witness: the replies {A, A, B} completed in the order A, B, A and the
\* call returned A.
C8_Witness ==
    /\ same_futures = EmptyBag
    /\ Len(same_completed) = 3
    /\ \E a, b \in RequestedSpends :
          /\ a # b
          /\ same_completed = <<GetDbcSpendOk(a), GetDbcSpendOk(b), GetDbcSpendOk(a)>>
          /\ same_result = OkSpend(a)

\* C9: when every request has completed and no class of equal certificates
\* reached the threshold, the call fails with CouldNotVerifyTransfer whose
\* count is the number of certificates of the requested identifier received,
\* duplicates and disagreeing ones included, and whose threshold is
\* close_group_majority(); it fails that way in no other case.
C9_CouldNotVerifyCountsAll ==
    /\ (/\ SameReturned
         /\ same_futures = EmptyBag
         /\ \A spend \in RequestedSpends :
               Occurrences(same_completed, GetDbcSpendOk(spend)) < close_group_majority)
            => same_result =
                 ErrCouldNotVerifyTransfer(
                    Cardinality({i \in 1..Len(same_completed) :
                        /\ IsGetDbcSpendOk(same_completed[i])
                        /\ same_completed[i].spend.id = dbc_id}),
                    close_group_majority)
    /\ same_result.tag = "Err.CouldNotVerifyTransfer" =>
          /\ same_futures = EmptyBag
          /\ same_result.required = close_group_majority
          /\ \A spend \in RequestedSpends :
                Occurrences(same_completed, GetDbcSpendOk(spend)) < close_group_majority

\* C9 witness: three pairwise different certificates of the requested
\* identifier arrived; the call failed reporting 3, above the threshold.
C9_Witness ==
    /\ same_result.tag = "Err.CouldNotVerifyTransfer"
    /\ same_result.got = 3
    /\ same_result.got >= same_result.required
    /\ \A spend \in RequestedSpends :
          Occurrences(same_completed, GetDbcSpendOk(spend)) = 1

\* C10: the accumulator holds exactly the completed certificates of the
\* requested identifier, in completion order: a network error, a response of
\* another kind, a failed GetDbcSpend result and a certificate of another
\* identifier are never appended, belong to no class and do not add to the
\* count reported on failure.
C10_OnlyMatchingSpendsAccumulated ==
    /\ same_responses = MatchingSpends(same_completed)
    /\ same_result.tag = "Err.CouldNotVerifyTransfer" =>
          same_result.got = Len(MatchingSpends(same_completed))
    /\ same_result.tag = "Ok" => same_result.spend.id = dbc_id

\* C10 witness: a network error, a response of another kind, a failed
\* GetDbcSpend result and two equal certificates of another identifier all
\* completed; the accumulator is empty and the call failed reporting 0.
C10_Witness ==
    /\ same_result = ErrCouldNotVerifyTransfer(0, close_group_majority)
    /\ same_responses = <<>>
    /\ Occurrences(same_completed, NetworkErr("Timeout")) = 1
    /\ Occurrences(same_completed, SpendResponse("Ok")) = 1
    /\ Occurrences(same_completed, GetDbcSpendErr("SpendRejected")) = 1
    /\ \E spend \in SignedSpends :
          /\ spend.id # dbc_id
          /\ Occurrences(same_completed, GetDbcSpendOk(spend)) >= 1

(***************************************************************************)
(* Properties of get_chunk.                                                *)
(***************************************************************************)
\* C11: get_chunk returns Ok only with a chunk whose content-derived address
\* is the address that was asked for, whatever the provider answered.
C11_ReturnedChunkHasRequestedAddress ==
    gc_result.tag = "Ok" => ChunkName(gc_result.chunk) = gc_address

\* C12: get_chunk makes exactly one provider lookup, and maps what it yields:
\* a query response of another kind than GetChunk gives UnexpectedResponses,
\* a failure of the network layer (of the call, or a local error) is returned
\* as that error, a GetChunk response gives its nested success or failure.
C12_GetChunkOutcome ==
    gc_pc = "done" =>
        /\ gc_lookups = 1
        /\ gc_provided.tag \notin {"Query.GetChunk", "Err.Network", "Err.Local"} =>
              gc_result = ErrUnexpectedResponses
        /\ gc_provided.tag \in {"Err.Network", "Err.Local"} =>
              /\ gc_result.tag = "Err.Network"
              /\ gc_result.err = gc_provided.err
        /\ gc_provided.tag = "Query.GetChunk" =>
              /\ gc_provided.result = "Ok" => gc_result = OkChunk(gc_provided.chunk)
              /\ gc_provided.result # "Ok" => gc_result = ErrProtocol(gc_provided.result)

\* C12 witness: the lookup ended with a local error and the call returned it.
C12_Witness ==
    /\ gc_pc = "done"
    /\ gc_provided = LocalErr("RecordNotFound")
    /\ gc_result = ErrNetwork("RecordNotFound")

(***************************************************************************)
(* Client::new: the bootstrap rendezvous                                   *)
(***************************************************************************)
\* The distinct peers the network has reported as added.
DistinctConnected == BagToSet(connected)

\* C13: Client::new has returned a client only when PeerAdded events of at
\* least CLOSE_GROUP_SIZE + 1 distinct peers were handled; the same peer
\* reported again and again is not enough.
C13_ReadyOnlyWithDistinctPeers ==
    new_result = OkClient => Cardinality(DistinctConnected) >= CLOSE_GROUP_SIZE + 1

\* The event stream was closed having reported at most CLOSE_GROUP_SIZE
\* connections.
ClosedTooEarly == net_closed /\ BagCardinality(connected) <= CLOSE_GROUP_SIZE

\* C14: once the network event stream has closed after fewer than
\* CLOSE_GROUP_SIZE + 1 connections, Client::new eventually returns, and what
\* it returns is a failure, not a client.
C14_ClosedStreamFailsBootstrap ==
    ClosedTooEarly ~> (new_pc = "done" /\ new_result # OkClient)

\* The seeds a finished dialing task was given have each been dialed once.
DialedOnce(seed) == Cardinality({i \in DOMAIN dial_log : dial_log[i].seed = seed}) = 1

\* C15: the dialing task is started before the first network event is
\* awaited, iff seed peers were given, and never again; each seed peer is
\* dialed at most once, and once the task is through exactly once, in the
\* order given, whatever the outcome of the dials before it; a failed dial
\* fails nothing: Client::new fails only before the handler task exists.
C15_SeedsDialedOnce ==
    /\ Len(dial_pos) <= 1
    /\ handler_pc = "recv" => Len(dial_pos) = (IF peers.some THEN 1 ELSE 0)
    /\ handler_pc = "recv" => (~must_dial_network \/ ~peers.some)
    /\ \A i \in DOMAIN dial_log : dial_log[i].seed = peers.list[i]
    /\ \A task \in DOMAIN dial_pos :
          /\ Len(dial_log) = dial_pos[task] - 1
          /\ dial_pos[task] > Len(peers.list) =>
                (\A i \in DOMAIN peers.list : DialedOnce(peers.list[i]))
    /\ new_result.tag = "Err.Network" => (handler_pc = "idle" /\ dial_log = <<>>)

\* Both seed peers were dialed though the first dial failed, four events were
\* handled after the task was started, and the client was returned.
C15_Witness ==
    /\ peers = SomePeers(<<1, 2>>)
    /\ Len(dial_log) = 2
    /\ dial_log[1].outcome = "DialError"
    /\ BagCardinality(connected) + others_handled >= 2
    /\ new_result = OkClient

\* The client state a network event or a probe could touch: the events
\* channel and the constructor's view of it.
clientState == <<subscribed, broadcasts, rx_pending, new_pc, new_result, added_node>>

\* What a step may do to the client: handling a PeerAdded event, handling
\* another event, completing a probe.
HandleNetworkEventStep ==
    /\ (connected' # connected) =>
          (/\ broadcasts' = broadcasts + 1
           /\ \E p \in PeerIds :
                 /\ connected' = connected (+) SetToBag({p})
                 /\ probes_started' =
                        probes_started (+) SetToBag({NetworkAddressFromPeer(p)})
           /\ probes_done' = probes_done)
    /\ (others_handled' # others_handled) =>
          UNCHANGED <<clientState, probeVars>>
    /\ (probes_done' # probes_done) =>
          UNCHANGED <<clientState, handlerVars, dialVars, probes_started>>

\* Every PeerAdded event handled so far was broadcast once and probed once.
HandledPeersProbed ==
    /\ broadcasts = BagCardinality(connected)
    /\ BagCardinality(probes_started) = BagCardinality(connected)
    /\ \A p \in PeerIds :
          CopiesIn(NetworkAddressFromPeer(p), probes_started) = CopiesIn(p, connected)

\* C19: each PeerAdded event handled broadcasts exactly one
\* ConnectedToNetwork event and starts exactly one probe, for the address of
\* that peer; RequestReceived and NewListenAddr events broadcast nothing,
\* start no probe and leave the client state as it was; a probe that
\* completes changes nothing but the set of running probes.
C19_HandleNetworkEventEffects ==
    []HandledPeersProbed /\ [][HandleNetworkEventStep]_vars

\* The loop has handled events of every kind and gone on with a probe still
\* running, while another probe has completed.
C19_Witness ==
    /\ BagCardinality(connected) >= 2
    /\ others_handled >= 2
    /\ probes_done >= 1
    /\ probes_done < BagCardinality(probes_started)
    /\ handler_pc = "recv"

(***************************************************************************)
(* store_chunk: a resend                                                   *)
(***************************************************************************)
\* C18: a store command that was acknowledged by a majority and is sent
\* again to the same group, whose acknowledging members acknowledge the
\* replay, is answered Ok again, whatever the other members answer.
C18_ResendSameOutcome ==
    first_result # NotReturned => store_result = first_result

\* The resend was answered Ok although a member that had not answered the
\* first call rejected the replay.
C18_Witness ==
    /\ first_result = OkUnit
    /\ store_result = OkUnit
    /\ StoreChunkErrs(responses.list) # {}
    /\ all_oks(responses.list) = close_group_majority

(***************************************************************************)
(* The three quorum operations together                                    *)
(***************************************************************************)
\* floor(CLOSE_GROUP_SIZE / 2) + 1
MajorityOfCloseGroup == (CLOSE_GROUP_SIZE \div 2) + 1

\* Whether expect_closest_majority_ok has returned after resolving its peers.
OkReturned == ok_pc = "done" /\ ok_result.tag # "Err.Network"

\* C16: store_chunk, expect_closest_majority_ok and
\* expect_closest_majority_same succeed exactly when the successes (the equal
\* certificates) among the replies number at least
\* floor(CLOSE_GROUP_SIZE / 2) + 1, and report that number as the one
\* required, however many peers were resolved and however many responses
\* came back.
C16_OneThreshold ==
    /\ StoreReturned =>
          ((store_result = OkUnit) <=>
              (Occurrences(responses.list, StoreChunkResponse("Ok"))
                  >= MajorityOfCloseGroup))
    /\ OkReturned =>
          /\ (ok_result = OkUnit) <=> (SpendOksOfAll >= MajorityOfCloseGroup)
          /\ ok_result # OkUnit => ok_result.required = MajorityOfCloseGroup
    /\ SameReturned =>
          /\ (same_result.tag = "Ok") <=>
                (\E spend \in RequestedSpends :
                    RepliesEqualTo(spend) >= MajorityOfCloseGroup)
          /\ same_result.tag # "Ok" => same_result.required = MajorityOfCloseGroup

\* Two acknowledgements among MaxPeers responses were enough for
\* store_chunk, though they are no majority of those responses.
C16_Witness ==
    /\ StoreReturned
    /\ store_result = OkUnit
    /\ Len(responses.list) = MaxPeers
    /\ all_oks(responses.list) = MajorityOfCloseGroup
    /\ all_oks(responses.list) < (Len(responses.list) \div 2) + 1

\* The call was made with no peer resolved and no response received.
StoreGroupEmpty == StoreReturned /\ responses.list = <<>>

OkGroupEmpty == OkReturned /\ ok_completed = <<>> /\ ok_futures = EmptyBag

SameGroupEmpty == SameReturned /\ same_completed = <<>> /\ same_futures = EmptyBag

\* C17 as stated: with an empty group each of the three operations fails
\* with the quorum-not-reached condition.
C17_Original ==
    /\ StoreGroupEmpty => store_result.tag = "Err.CouldNotVerifyTransfer"
    /\ OkGroupEmpty => ok_result.tag = "Err.CouldNotVerifyTransfer"
    /\ SameGroupEmpty => same_result.tag = "Err.CouldNotVerifyTransfer"

\* C17 amended: with an empty group none of the three operations reports
\* success; expect_closest_majority_ok and expect_closest_majority_same fail
\* with the quorum-not-reached condition, got 0 of close_group_majority(),
\* and store_chunk fails with UnexpectedResponses.
C17_EmptyGroupNeverSucceeds ==
    /\ StoreGroupEmpty => store_result = ErrUnexpectedResponses
    /\ OkGroupEmpty => ok_result = ErrCouldNotVerifyTransfer(0, close_group_majority)
    /\ SameGroupEmpty => same_result = ErrCouldNotVerifyTransfer(0, close_group_majority)

\* store_chunk has returned for an empty list of responses.
C17_Witness == StoreGroupEmpty /\ store_result.tag \notin {"Ok", "Err.CouldNotVerifyTransfer"}

(***************************************************************************)
(* ReplicatedData: name() and dst()                                        *)
(***************************************************************************)
\* C20: for every value of ReplicatedData the key of the address dst()
\* returns is what name() returns; equal values have equal names and
\* addresses; two DoubleSpend values of one address have the same name and
\* the same address whatever their sets of certificates; a ValidSpend and a
\* DoubleSpend of the address of its identifier are routed to the same
\* address.
C20_NameAndDstAgree ==
    /\ \A i \in 1..rd_pc : rd_dst[i].key = rd_name[i]
    /\ rd_pc = 2 =>
          /\ rd_data[1] = rd_data[2] =>
                (rd_name[1] = rd_name[2] /\ rd_dst[1] = rd_dst[2])
          /\ (/\ rd_data[1].variant = "DoubleSpend"
               /\ rd_data[2].variant = "DoubleSpend"
               /\ rd_data[1].address = rd_data[2].address)
                  => (rd_name[1] = rd_name[2] /\ rd_dst[1] = rd_dst[2])
          /\ (/\ rd_data[1].variant = "ValidSpend"
               /\ rd_data[2].variant = "DoubleSpend"
               /\ rd_data[2].address = DbcAddressFromDbcId(rd_data[1].spend.id))
                  => (rd_name[1] = rd_name[2] /\ rd_dst[1] = rd_dst[2])

\* A ValidSpend and a DoubleSpend of the same address whose certificates are
\* all of another identifier have one name and one address.
C20_Witness ==
    /\ rd_pc = 2
    /\ rd_data[1].variant = "ValidSpend"
    /\ rd_data[2].variant = "DoubleSpend"
    /\ rd_data[2].address = DbcAddressFromDbcId(rd_data[1].spend.id)
    /\ Cardinality(rd_data[2].spends) >= 2
    /\ \A spend \in rd_data[2].spends : spend.id # rd_data[1].spend.id
    /\ rd_dst[1] = rd_dst[2]
    /\ rd_name[1] = rd_name[2]

(***************************************************************************)
(* store_chunk: send errors and unexpected responses                       *)
(***************************************************************************)
\* The positions of the network errors in the response list.
NetworkErrPositions == {i \in 1..Len(responses.list) : IsNetworkErr(responses.list[i])}

\* C21: with no majority and no StoreChunk rejection, store_chunk returns
\* the first network error in response order when a response is a network
\* error, and UnexpectedResponses exactly when none is: successes below the
\* majority among responses of the wrong kind, or no response at all.
C21_FirstSendErrorOrUnexpected ==
    (StoreReturned /\ NoStoreMajority /\ NoRejection) =>
        /\ (store_result = ErrUnexpectedResponses) <=> (NetworkErrPositions = {})
        /\ NetworkErrPositions # {} =>
              store_result = ErrNetwork(responses.list[MinIndex(NetworkErrPositions)].err)

\* One success among responses of the wrong kind, with no rejection and no
\* network error: the call failed with UnexpectedResponses.
C21_Witness ==
    /\ StoreReturned
    /\ Len(responses.list) = 3
    /\ responses.list[1] = SpendResponse("Ok")
    /\ responses.list[2] = StoreChunkResponse("Ok")
    /\ responses.list[3] = GetChunkResponse
    /\ store_result = ErrUnexpectedResponses

(***************************************************************************)
(* The majority calls: one bounded pass                                    *)
(***************************************************************************)
\* The requests of a call: those completed and those in flight.
OkRequests == Len(ok_completed) + BagCardinality(ok_futures)

SameRequests == Len(same_completed) + BagCardinality(same_futures)

\* A step of the loop takes one request out of flight and puts none in.
OnePassStep ==
    /\ ok_pc = "select" =>
          /\ OkRequests' = OkRequests
          /\ ok_completed' # ok_completed =>
                BagCardinality(ok_futures') = BagCardinality(ok_futures) - 1
    /\ same_pc = "select" =>
          /\ SameRequests' = SameRequests
          /\ same_completed' # same_completed =>
                BagCardinality(same_futures') = BagCardinality(same_futures) - 1
    /\ ok_pc = "done" => UNCHANGED okVars
    /\ same_pc = "done" => UNCHANGED sameVars

\* The call has ended in success or in could-not-verify.
OkEnded ==
    /\ ok_pc = "done"
    /\ ok_result.tag \in {"Ok", "Err.CouldNotVerifyTransfer"}

SameEnded ==
    /\ same_pc = "done"
    /\ same_result.tag \in {"Ok", "Err.CouldNotVerifyTransfer"}

\* C22: expect_closest_majority_ok and expect_closest_majority_same send
\* their requests once (one per resolved peer, at most MaxPeers here); each
\* iteration takes exactly one completed request out of the in-flight set
\* and adds none, so no more completions are handled than requests were
\* sent; and when requests in flight complete in the end, the call ends,
\* in success or in could-not-verify.
C22_SingleBoundedPass ==
    /\ [](OkRequests <= MaxPeers /\ SameRequests <= MaxPeers)
    /\ [][OnePassStep]_vars
    /\ (ok_pc = "select") ~> OkEnded
    /\ (same_pc = "select") ~> SameEnded

\* expect_closest_majority_same has ended in success at the completion of
\* the last of MaxPeers requests.
C22_Witness ==
    /\ SameEnded
    /\ same_result.tag = "Ok"
    /\ Len(same_completed) = MaxPeers
    /\ same_futures = EmptyBag

(***************************************************************************)
(* expect_closest_majority_same: the outcome and the completion order      *)
(***************************************************************************)
\* The certificates of the requested identifier that at least
\* close_group_majority() of all the replies, completed or not, are equal to.
AgreedByReplies == {spend \in RequestedSpends : RepliesEqualTo(spend) >= close_group_majority}

\* The replies, completed or not, that are certificates of the requested
\* identifier.
MatchingReplies ==
    Cardinality({i \in 1..Len(same_completed) :
                    /\ IsGetDbcSpendOk(same_completed[i])
                    /\ same_completed[i].spend.id = dbc_id})
        + BagCardinality([reply \in {r \in BagToSet(same_futures) :
                                        IsGetDbcSpendOk(r) /\ r.spend.id = dbc_id}
                             |-> same_futures[reply]])

\* C25: with at most CLOSE_GROUP_SIZE peers resolved, at most one
\* certificate is agreed by a majority of the replies, and the outcome of
\* the call is decided by the bag of the replies alone, whatever the order
\* of their completion: that certificate if there is one, else the failure
\* reporting the number of certificates of the identifier among the replies.
C25_OutcomeDecidedByReplies ==
    (SameReturned /\ SameRequests <= CLOSE_GROUP_SIZE) =>
        /\ Cardinality(AgreedByReplies) <= 1
        /\ \A spend \in AgreedByReplies : same_result = OkSpend(spend)
        /\ AgreedByReplies = {} =>
              same_result = ErrCouldNotVerifyTransfer(MatchingReplies, close_group_majority)

\* Of CLOSE_GROUP_SIZE replies two equal certificates completed first and
\* were returned, a different certificate of the identifier still in flight.
C25_Witness ==
    /\ SameRequests = CLOSE_GROUP_SIZE
    /\ Len(same_completed) = 2
    /\ same_completed[1] = same_completed[2]
    /\ same_result.tag = "Ok"
    /\ \E spend \in RequestedSpends :
          /\ spend # same_result.spend
          /\ same_futures = SetToBag({GetDbcSpendOk(spend)})

(***************************************************************************)
(* Client::new: the handler task and the subscription                      *)
(***************************************************************************)
\* The network has delivered PeerAdded events enough for the rendezvous.
EnoughPeersAdded == BagCardinality(connected) >= CLOSE_GROUP_SIZE + 1

\* C26: once the handler task has been handed at least CLOSE_GROUP_SIZE + 1
\* PeerAdded events, Client::new returns a client in the end: no
\* ConnectedToNetwork event broadcast by the handler task misses the wait
\* loop.
C26_EnoughPeersLeadToClient == EnoughPeersAdded ~> (new_result = OkClient)

(***************************************************************************)
(* safenode: the control loop                                              *)
(***************************************************************************)
\* The control loop takes the oldest command of the channel in this step.
ControlStep ==
    /\ node_pc = "running"
    /\ ctrl_rx # <<>>
    /\ node_pc' # "running" \/ Len(ctrl_rx') < Len(ctrl_rx)

\* What the control loop does with the command it takes, and what main does
\* once it has returned.
ControlLoopStep ==
    /\ (ControlStep /\ Head(ctrl_rx) = Restart) =>
          (node_pc' = "start" /\ node_result' = NotReturned /\ attempts' = attempts)
    /\ (ControlStep /\ Head(ctrl_rx).cmd = "Stop") =>
          (node_pc' = "exited" /\ node_result' = ErrReport(Head(ctrl_rx).cause))
    /\ (ControlStep /\ Head(ctrl_rx) = Update) =>
          /\ ctrl_rx' = Tail(ctrl_rx)
          /\ UNCHANGED <<node_pc, node_result, attempts, monitor_pc, node_events_closed>>
    /\ node_pc = "exited" => UNCHANGED <<node_pc, node_result, attempts>>
    /\ attempts' # attempts => (node_pc = "start" /\ attempts' = attempts + 1)

StoppedForClosedEvents ==
    node_pc = "exited" /\ node_result = ErrReport(EventsChannelClosed)

\* C24 as stated: once the node events channel has closed, the process
\* stops in the end with the error "Node events channel closed!".
C24_Original == node_events_closed ~> StoppedForClosedEvents

\* The monitoring task on lag, and the end of an attempt whose events
\* channel has closed.
MonitorStep ==
    /\ lagged' = lagged + 1 =>
          (monitor_pc' = "recv" /\ UNCHANGED <<ctrl_rx, node_pc, node_result>>)
    /\ (node_events_closed /\ node_pc' = "start") => Head(ctrl_rx) = Restart
    /\ (node_events_closed /\ node_pc' = "exited") =>
          (Head(ctrl_rx).cmd = "Stop" /\ node_result' = ErrReport(Head(ctrl_rx).cause))

\* C24 amended: once the node events channel has closed the monitoring task
\* sends Stop commands with the cause "Node events channel closed!" (and
\* only then), and the attempt ends: the process stops with that error and
\* is not restarted, unless a Restart or a Stop of the RPC service is
\* received before (the node is then restarted, or the process stops with
\* the cause of that Stop); with the RPC service disabled the process
\* always stops with that error. A Lagged error sends no command and the
\* task goes back to recv().
C24_ClosedEventsStopUnlessPreempted ==
    /\ [][MonitorStep]_vars
    /\ []((\E i \in DOMAIN ctrl_rx : ctrl_rx[i] = Stop(EventsChannelClosed))
            => node_events_closed)
    /\ [](monitor_pc = "send" => node_events_closed)
    /\ node_events_closed ~> (node_pc \in {"start", "exited"})
    /\ (node_events_closed /\ ~rpc) ~> StoppedForClosedEvents

\* With the RPC service disabled the first attempt was stopped by the
\* monitoring task.
C24_Witness ==
    /\ StoppedForClosedEvents
    /\ ~rpc
    /\ attempts = 1

====
